---- MODULE Spec2Model ----
(***************************************************************************)
(* Model of converter(): the Beat Saber -> Audio Trip map converter.       *)
(* Two snapshots of the script are modelled, selected by `version`:        *)
(*   "current" : src/src/converter.py                                      *)
(*   "legacy"  : src/converter.py                                          *)
(* Floating point values are modelled as exact rationals <<num, den>>.     *)
(* Configuration floats are held in hundredths (150 stands for 1.5) so     *)
(* that repr() can be computed digit by digit.                             *)
(***************************************************************************)
EXTENDS Integers, Sequences, FiniteSets, TLC

VARIABLES
    version,             \* which snapshot of the script runs
    package,             \* colorNotes lists of the declared difficulties
    choices,             \* configurations the process may call converter() with
    calls_left,          \* converter() calls the process has still to make
    config,              \* arguments of the current converter() call
    global_random,       \* state of the module-level random generator
    other_draws,         \* draws other code took from the global generator
    pc,                  \* position inside converter()
    j,                   \* index of the difficulty being processed (0-based)
    k,                   \* notes of difficulty j already processed
    song_id,             \* metadata.songID
    song_file,           \* "unbound" until the loop body binds it
    at_map_output_json,  \* the document under construction
    local_random,        \* state of the generator the jitter is drawn from
    used,                \* jitter samples handed out in this run, in order
    written,             \* output files this run has written
    runs                 \* one record per call that got to build its document

vars == <<version, package, choices, calls_left, config, global_random, other_draws, pc, j, k,
          song_id, song_file, at_map_output_json, local_random, used,
          written, runs>>

----------------------------------------------------------------------------
(* Bounds of the model *)

MaxDiffs == 2        \* difficulties per package in the structure family
MaxNotes == 2        \* notes per difficulty in the structure family
BeatBits == 4        \* beats are multiples of 1 / 2^BeatBits
MaxBeatNum == 40     \* largest beat numerator, in units of 1 / 2^BeatBits
NegBeatNum == 8      \* most negative beat numerator
LaneSpan == 5        \* lane indexes range over -LaneSpan .. LaneSpan
MaxColor == 3        \* colour tags range over 0 .. MaxColor
MaxRuns == 2         \* converter() calls per process
MaxOtherDraws == 2   \* draws by other code between the calls
GlobalStates == 1    \* initial states of the module-level generator
RandMod == 16        \* number of states of the modelled generator
HashMod == 65536     \* number of values of the modelled digest

----------------------------------------------------------------------------
(* Exact rational arithmetic *)

Abs(a) == IF a < 0 THEN -a ELSE a

RECURSIVE Gcd(_, _)
Gcd(a, b) == IF b = 0 THEN a ELSE Gcd(b, a % b)

Frac(n, d) ==
    LET g == Gcd(Abs(n), Abs(d))
        s == IF d < 0 THEN -1 ELSE 1
    IN  <<(s * n) \div g, (s * d) \div g>>

RInt(n) == <<n, 1>>
RAdd(a, b) == Frac(a[1] * b[2] + b[1] * a[2], a[2] * b[2])
RSub(a, b) == Frac(a[1] * b[2] - b[1] * a[2], a[2] * b[2])
RMul(a, b) == Frac(a[1] * b[1], a[2] * b[2])
RDiv(a, b) == Frac(a[1] * b[2], a[2] * b[1])
RNeg(a) == <<-a[1], a[2]>>
RAbs(a) == <<Abs(a[1]), a[2]>>
RLe(a, b) == a[1] * b[2] <= b[1] * a[2]
RLt(a, b) == a[1] * b[2] < b[1] * a[2]

RECURSIVE Pow2(_)
Pow2(n) == IF n = 0 THEN 1 ELSE 2 * Pow2(n - 1)

\* a float given in hundredths, as the rational it stands for
Float(h) == Frac(h, 100)

----------------------------------------------------------------------------
(* Strings are sequences of one-character strings *)

Alphabet ==
    <<"0", "1", "2", "3", "4", "5", "6", "7", "8", "9", "a", "b", "c", "d",
      "e", "f", ".", "'", "T", "r", "u", "F", "l", "s", " ", "-", "S", "A",
      "o", "g">>

Code(c) == CHOOSE i \in 1..Len(Alphabet) : Alphabet[i] = c

RECURSIVE Digits(_)
Digits(n) ==
    IF n < 10 THEN <<Alphabet[n + 1]>>
    ELSE Digits(n \div 10) \o <<Alphabet[(n % 10) + 1]>>

\* repr() of a non-negative float with at most two decimals: the shortest
\* decimal that reads back as the same value, always with a fraction part
ReprFloat(h) ==
    LET ip == h \div 100
        fp == h % 100
        fd == IF fp % 10 = 0 THEN <<Alphabet[(fp \div 10) + 1]>>
              ELSE <<Alphabet[(fp \div 10) + 1], Alphabet[(fp % 10) + 1]>>
    IN  Digits(ip) \o <<".">> \o fd

ReprBool(b) == IF b THEN <<"T", "r", "u", "e">> ELSE <<"F", "a", "l", "s", "e">>

ReprStr(s) == <<"'">> \o s \o <<"'">>

\* stand-in for SHA-256: a polynomial digest of the characters
RECURSIVE DigestFrom(_, _, _)
DigestFrom(s, i, h) ==
    IF i > Len(s) THEN h
    ELSE DigestFrom(s, i + 1, (h * 31 + Code(s[i])) % HashMod)

sha256(s) == DigestFrom(s, 1, 7)

RECURSIVE HexDigits(_, _)
HexDigits(n, w) ==
    IF w = 0 THEN <<>>
    ELSE HexDigits(n \div 16, w - 1) \o <<Alphabet[(n % 16) + 1]>>

hexdigest(n) == HexDigits(n, 4)

\* the leading half of the digest, read as a big-endian integer
seed_from_string(s) == sha256(s) \div 256

----------------------------------------------------------------------------
(* generate_song_id: the reprs of the arguments, joined without separator *)

Repr(arg) ==
    CASE arg[1] = "str" -> ReprStr(arg[2])
      [] arg[1] = "float" -> ReprFloat(arg[2])
      [] arg[1] = "bool" -> ReprBool(arg[2])

RECURSIVE JoinReprs(_, _)
JoinReprs(args, i) ==
    IF i > Len(args) THEN <<>> ELSE Repr(args[i]) \o JoinReprs(args, i + 1)

song_id_str(args) == JoinReprs(args, 1)

generate_song_id(args) == hexdigest(sha256(song_id_str(args)))

\* the arguments converter() passes to generate_song_id
SongIdArgs(h, cfg) ==
    << <<"str", h>>,
       <<"float", cfg.at_x_range>>,
       <<"float", cfg.at_y_range>>,
       <<"float", cfg.at_y_min>>,
       <<"float", cfg.at_njs_multiplier>>,
       <<"bool", cfg.bs_arrows_as_directionals>>,
       <<"bool", cfg.bs_bombs_as_walls>>,
       <<"bool", cfg.bs_stacks_as_drums>>,
       <<"float", cfg.x_wobble_factor>>,
       <<"float", cfg.y_wobble_factor>> >>

----------------------------------------------------------------------------
(* The source package: Info.dat and the API metadata of the one map *)

bs_info_json ==
    [_songName |-> <<"S">>, _songAuthorName |-> <<"A">>, _songSubName |-> <<>>,
     _noteJumpMovementSpeed |-> 16, song_length |-> 180]

map_hash == <<"a", "1", "f">>

at_song_file_name ==
    bs_info_json._songName \o <<" ", "-", " ">>
        \o bs_info_json._songAuthorName \o <<" ">>
        \o bs_info_json._songSubName \o <<".", "o", "g", "g">>

----------------------------------------------------------------------------
(* Fraction(beat).limit_denominator(beats_per_measure) *)

beats_per_measure == 4

\* Fraction(beat): the exact value of the number, in lowest terms
Fraction(beat) == Frac(beat[1], beat[2])

RECURSIVE LimitLoop(_, _, _, _, _, _, _)
LimitLoop(p0, q0, p1, q1, n, d, max_denominator) ==
    LET a == n \div d
        q2 == q0 + a * q1
    IN  IF q2 > max_denominator THEN <<p0, q0, p1, q1>>
        ELSE LimitLoop(p1, q1, p0 + a * p1, q2, d, n - a * d, max_denominator)

\* CloserBound with the tie going to bound1
CloserBoundStrict(f, bound1, bound2) ==
    IF RLt(RAbs(RSub(bound2, f)), RAbs(RSub(bound1, f))) THEN bound2 ELSE bound1

\* the tie between the two candidate bounds goes to bound2
CloserBound(f, bound1, bound2) ==
    IF RLe(RAbs(RSub(bound2, f)), RAbs(RSub(bound1, f))) THEN bound2 ELSE bound1

limit_denominator(f, max_denominator) ==
    IF f[2] <= max_denominator THEN f
    ELSE LET r == LimitLoop(0, 1, 1, 0, f[1], f[2], max_denominator)
             kk == (max_denominator - r[2]) \div r[4]
             bound1 == Frac(r[1] + kk * r[3], r[2] + kk * r[4])
             bound2 == Frac(r[3], r[4])
         IN  CloserBound(f, bound1, bound2)

\* BeatTime without the subtraction of the whole beat from the fraction
BeatTimeNoSubtract(beat) ==
    LET f == limit_denominator(Fraction(beat), beats_per_measure)
        whole_beat == f[1] \div f[2]
    IN  [beat |-> whole_beat, numerator |-> f[1], denominator |-> f[2]]

\* "time" of the event of a note at `beat`
BeatTime(beat) ==
    LET f == limit_denominator(Fraction(beat), beats_per_measure)
        whole_beat == f[1] \div f[2]
        remainder == RSub(f, RInt(whole_beat))
    IN  [beat |-> whole_beat, numerator |-> remainder[1],
         denominator |-> remainder[2]]

----------------------------------------------------------------------------
(* The lattice of destination centres *)

bs_x_range == 3
bs_y_range == 2

\* x_scale divided by the vertical span of the source grid
x_scale_by_y_range(cfg) == RDiv(Float(cfg.at_x_range), RInt(bs_y_range))

x_scale(cfg) == RDiv(Float(cfg.at_x_range), RInt(bs_x_range))
y_scale(cfg) == RDiv(Float(cfg.at_y_range), RInt(bs_y_range))
x_wobble(cfg) == RMul(x_scale(cfg), Float(cfg.x_wobble_factor))
y_wobble(cfg) == RMul(y_scale(cfg), Float(cfg.y_wobble_factor))

\* positions with the rows listed top row first
positions_top_first(cfg) ==
    LET xs == x_scale(cfg)
        ys == y_scale(cfg)
        ym == Float(cfg.at_y_min)
        x0 == RDiv(RMul(RNeg(xs), RInt(3)), RInt(2))
        x1 == RDiv(RNeg(xs), RInt(2))
        x2 == RDiv(xs, RInt(2))
        x3 == RDiv(RMul(xs, RInt(3)), RInt(2))
        y0 == RAdd(ym, RDiv(ys, RInt(2)))
        y1 == RAdd(ym, RDiv(RMul(ys, RInt(3)), RInt(2)))
        y2 == RAdd(ym, RDiv(RMul(ys, RInt(5)), RInt(2)))
    IN  << << <<x0, y2>>, <<x1, y2>>, <<x2, y2>>, <<x3, y2>> >>,
           << <<x0, y1>>, <<x1, y1>>, <<x2, y1>>, <<x3, y1>> >>,
           << <<x0, y0>>, <<x1, y0>>, <<x2, y0>>, <<x3, y0>> >> >>

\* the table of lane centres, positions[row][column] = (x, y)
positions(cfg) ==
    LET xs == x_scale(cfg)
        ys == y_scale(cfg)
        ym == Float(cfg.at_y_min)
        x0 == RDiv(RMul(RNeg(xs), RInt(3)), RInt(2))
        x1 == RDiv(RNeg(xs), RInt(2))
        x2 == RDiv(xs, RInt(2))
        x3 == RDiv(RMul(xs, RInt(3)), RInt(2))
        y0 == RAdd(ym, RDiv(ys, RInt(2)))
        y1 == RAdd(ym, RDiv(RMul(ys, RInt(3)), RInt(2)))
        y2 == RAdd(ym, RDiv(RMul(ys, RInt(5)), RInt(2)))
    IN  << << <<x0, y0>>, <<x1, y0>>, <<x2, y0>>, <<x3, y0>> >>,
           << <<x0, y1>>, <<x1, y1>>, <<x2, y1>>, <<x3, y1>> >>,
           << <<x0, y2>>, <<x1, y2>>, <<x2, y2>>, <<x3, y2>> >> >>

\* Python list indexing: -len .. len-1 are valid, negatives count from the end
IndexOk(i, len) == -len <= i /\ i < len
ListIndex(i, len) == IF i < 0 THEN len + i + 1 ELSE i + 1

LaneOk(e, cfg) ==
    /\ IndexOk(e.y, Len(positions(cfg)))
    /\ IndexOk(e.x, Len(positions(cfg)[ListIndex(e.y, Len(positions(cfg)))]))

LaneCentre(e, cfg) ==
    LET row == positions(cfg)[ListIndex(e.y, Len(positions(cfg)))]
    IN  row[ListIndex(e.x, Len(row))]

----------------------------------------------------------------------------
(* The random generator: a full-period congruential stand-in *)

RandomSeeded(seed) == seed % RandMod
RandomNext(s) == (5 * s + 3) % RandMod
RandomValue(s) == Frac(s, RandMod)

\* random() * 2 - 1
JitterOf(s) == RSub(RMul(RandomValue(s), RInt(2)), RInt(1))

----------------------------------------------------------------------------
(* Inputs: configurations and packages *)

\* the command line defaults of the current script
DefaultConfig ==
    [at_x_range |-> 150, at_y_range |-> 105, at_y_min |-> 40,
     at_njs_multiplier |-> 280, bs_arrows_as_directionals |-> FALSE,
     bs_bombs_as_walls |-> TRUE, bs_stacks_as_drums |-> TRUE,
     x_wobble_factor |-> 10, y_wobble_factor |-> 10]

\* the keyword defaults of the legacy script
LegacyConfig ==
    [DefaultConfig EXCEPT !.at_x_range = 250, !.at_y_range = 150,
                          !.at_y_min = 30]

ZeroWobbleConfig ==
    [LegacyConfig EXCEPT !.x_wobble_factor = 0, !.y_wobble_factor = 0]

\* DefaultConfig with one argument changed, once for every argument
OneOffConfigs ==
    {[DefaultConfig EXCEPT !.at_x_range = 151],
     [DefaultConfig EXCEPT !.at_y_range = 150],
     [DefaultConfig EXCEPT !.at_y_min = 30],
     [DefaultConfig EXCEPT !.at_njs_multiplier = 100],
     [DefaultConfig EXCEPT !.bs_arrows_as_directionals = TRUE],
     [DefaultConfig EXCEPT !.bs_bombs_as_walls = FALSE],
     [DefaultConfig EXCEPT !.bs_stacks_as_drums = FALSE],
     [DefaultConfig EXCEPT !.x_wobble_factor = 20],
     [DefaultConfig EXCEPT !.y_wobble_factor = 0]}

\* two configurations that differ in two arguments
WideConfigs ==
    {[DefaultConfig EXCEPT !.at_x_range = 150, !.at_y_range = 1150],
     [DefaultConfig EXCEPT !.at_x_range = 151, !.at_y_range = 150]}

Configs ==
    {DefaultConfig, LegacyConfig, ZeroWobbleConfig} \cup OneOffConfigs
        \cup WideConfigs

Beat(n) == <<n, Pow2(BeatBits)>>

Note(b, x, y, c) == [b |-> b, x |-> x, y |-> y, c |-> c]

\* note i of difficulty d of a structured package: neighbours differ in
\* beat, lane and colour
TemplateNote(d, i) ==
    Note(Beat(6 * i + 2 * d), (d + i) % 4, i % 3, (d + i) % 2)

\* packages of up to MaxDiffs difficulties of up to MaxNotes notes each
StructurePackages ==
    UNION {{[d \in 1..m |-> [i \in 1..shape[d] |-> TemplateNote(d, i)]] :
               shape \in [1..m -> 0..MaxNotes]} : m \in 0..MaxDiffs}

\* one note on lane (0, 0), at every beat
BeatPackages ==
    {<< <<Note(Beat(n), 0, 0, 0)>> >> : n \in (-NegBeatNum)..MaxBeatNum}

\* one note on every lane index pair, valid or not
LanePackages ==
    {<< <<Note(Beat(8), x, y, 1)>> >> :
        x \in (-LaneSpan)..LaneSpan, y \in (-LaneSpan)..LaneSpan}

\* one note of every colour tag
ColorPackages == {<< <<Note(Beat(8), 1, 1, c)>> >> : c \in 0..MaxColor}

\* one note on every lane of the lattice
LatticePackages ==
    {<< <<Note(Beat(8), x, y, 0)>> >> : x \in 0..3, y \in 0..2}

WellFormed(e) == e.x \in 0..3 /\ e.y \in 0..2 /\ e.b[1] >= 0

----------------------------------------------------------------------------
(* State of one converter() call *)

Idle == pc \in {"idle", "done", "error"}

\* the string handed to seed_from_string
SeedMaterial == IF version = "current" THEN song_id ELSE at_song_file_name

\* SeededState without the seeding: whatever the module-level generator holds
UnseededState == global_random

\* the state of a generator freshly seeded for this document
SeededState == RandomSeeded(seed_from_string(SeedMaterial))

\* the generator the jitter is drawn from
JitterState == IF version = "current" THEN local_random ELSE global_random

colorNotes == package[j + 1]

\* AppendEvent inserting at the front
PrependEvent(events, ev) == <<ev>> \o events

AppendEvent(events, ev) == Append(events, ev)

\* EventType testing for the second colour instead of the first
EventTypeByOne(e) == IF e.c = 1 THEN 2 ELSE 1

\* "type": (1 if e["c"] == 0 else 2)
EventType(e) == IF e.c = 0 THEN 1 ELSE 2

GemSpeed(cfg) ==
    IF version = "current"
    THEN RMul(RInt(bs_info_json._noteJumpMovementSpeed),
              Float(cfg.at_njs_multiplier))
    ELSE RInt(bs_info_json._noteJumpMovementSpeed)

\* Event giving the second draw to x and the first draw to y
EventSwappedDraws(e, cfg, s) ==
    LET centre == LaneCentre(e, cfg)
        s2 == RandomNext(s)
        x_pos == RAdd(centre[1], RMul(x_wobble(cfg), JitterOf(s2)))
        y_pos == RAdd(centre[2], RMul(y_wobble(cfg), JitterOf(s)))
    IN  [type |-> EventType(e), hasGuide |-> FALSE, time |-> BeatTime(e.b),
         beatDivision |-> 2,
         position |-> [x |-> x_pos, y |-> y_pos, z |-> RInt(0)],
         subPositions |-> <<>>, broadcastEventID |-> 0]

\* the event of note e when the generator is in state s
Event(e, cfg, s) ==
    LET centre == LaneCentre(e, cfg)
        s2 == RandomNext(s)
        x_pos == RAdd(centre[1], RMul(x_wobble(cfg), JitterOf(s)))
        y_pos == RAdd(centre[2], RMul(y_wobble(cfg), JitterOf(s2)))
    IN  [type |-> EventType(e), hasGuide |-> FALSE, time |-> BeatTime(e.b),
         beatDivision |-> 2,
         position |-> [x |-> x_pos, y |-> y_pos, z |-> RInt(0)],
         subPositions |-> <<>>, broadcastEventID |-> 0]

\* at_map_output_json as first built: no song length, no choreographies
EmptyDocument(id) ==
    [metadata |-> [songID |-> id, songFilename |-> at_song_file_name,
                   songEndTimeInSeconds |-> <<>>,
                   songFullLengthInSeconds |-> <<>>],
     choreographies |-> <<>>]

Init ==
    /\ version \in {"current", "legacy"}
    /\ \/ /\ package \in BeatPackages \cup LanePackages \cup ColorPackages
          /\ choices = {DefaultConfig}
          /\ calls_left = 1
       \/ /\ package \in StructurePackages
          /\ choices = {DefaultConfig}
          /\ calls_left = MaxRuns
       \/ /\ package = <<>>
          /\ choices = WideConfigs \cup {DefaultConfig}
          /\ calls_left = MaxRuns
       \/ /\ package \in LatticePackages
          /\ choices = Configs
          /\ calls_left = 1
    /\ config = DefaultConfig
    /\ global_random \in 0..(GlobalStates - 1)
    /\ other_draws = 0
    /\ pc = "idle"
    /\ j = 0
    /\ k = 0
    /\ song_id = <<>>
    /\ song_file = "unbound"
    /\ at_map_output_json = EmptyDocument(<<>>)
    /\ local_random = -1
    /\ used = <<>>
    /\ written = {}
    /\ runs = <<>>

----------------------------------------------------------------------------
(* The steps of converter() *)

\* the process state that outlives a call of converter()
Outside == <<version, package, choices, calls_left, config, other_draws, runs>>

\* converter() returns or raises: its local variables are gone
Leave(how) ==
    /\ pc' = how
    /\ j' = 0
    /\ k' = 0
    /\ song_id' = <<>>
    /\ song_file' = "unbound"
    /\ at_map_output_json' = EmptyDocument(<<>>)
    /\ local_random' = -1
    /\ used' = <<>>

\* fetch and unpack the map, read Info.dat, build the empty document
Begin ==
    /\ Idle
    /\ calls_left > 0
    /\ \E cfg \in choices,
          outcome \in {"ok", "fetch_failed", "info_missing", "key_missing"} :
          LET id == IF version = "current"
                    THEN generate_song_id(SongIdArgs(map_hash, cfg))
                    ELSE <<"BEAT SABER IMPORT">>
          IN  /\ config' = cfg
              /\ IF outcome = "ok"
                 THEN /\ pc' = "loop"
                      /\ runs' = Append(runs,
                            [config |-> cfg,
                             seed_material |-> IF version = "current" THEN id
                                               ELSE at_song_file_name,
                             doc |-> <<>>])
                      /\ song_id' = id
                      /\ at_map_output_json' = EmptyDocument(id)
                      /\ j' = 0
                      /\ k' = 0
                      /\ song_file' = "unbound"
                      /\ local_random' = -1
                      /\ used' = <<>>
                 ELSE /\ Leave("error")
                      /\ UNCHANGED runs
    /\ calls_left' = calls_left - 1
    /\ written' = {}
    /\ UNCHANGED <<version, package, choices, global_random, other_draws>>

\* the head of the loop body: open the difficulty file, append its record,
\* probe the audio length, build the lattice, seed the generator and look up
\* colorNotes; any of the three reads may raise
OpenDifficulty ==
    /\ pc = "loop"
    /\ j < Len(package)
    /\ \E outcome \in {"ok", "file_missing", "audio_unreadable",
                        "notes_missing"} :
          LET record == [header |-> [name |-> j, gemSpeed |-> GemSpeed(config)],
                         data |-> [events |-> <<>>]]
              appended == [at_map_output_json EXCEPT
                              !.choreographies = Append(@, record)]
              probed == [appended EXCEPT
                  !.metadata.songEndTimeInSeconds =
                      <<bs_info_json.song_length>>,
                  !.metadata.songFullLengthInSeconds =
                      <<bs_info_json.song_length>>]
          IN  CASE outcome \in {"file_missing", "audio_unreadable"} ->
                     /\ Leave("error")
                     /\ UNCHANGED global_random
                [] outcome = "notes_missing" ->
                     /\ Leave("error")
                     /\ global_random' = IF version = "current"
                                         THEN global_random ELSE SeededState
                [] outcome = "ok" ->
                     /\ pc' = "notes"
                     /\ at_map_output_json' = probed
                     /\ song_file' = "bound"
                     /\ k' = 0
                     /\ UNCHANGED <<j, song_id, used>>
                     /\ IF version = "current"
                        THEN /\ local_random' = SeededState
                             /\ UNCHANGED global_random
                        ELSE /\ global_random' = SeededState
                             /\ UNCHANGED local_random
    /\ UNCHANGED <<Outside, written>>

\* one iteration of the loop over colorNotes
TransformNote ==
    /\ pc = "notes"
    /\ k < Len(colorNotes)
    /\ LET e == colorNotes[k + 1]
           s == JitterState
           after == RandomNext(RandomNext(s))
       IN  IF LaneOk(e, config)
           THEN /\ at_map_output_json' =
                      [at_map_output_json EXCEPT
                          !.choreographies[j + 1].data.events =
                              AppendEvent(@, Event(e, config, s))]
                /\ used' = Append(used,
                      <<RandomValue(s), RandomValue(RandomNext(s))>>)
                /\ IF version = "current"
                   THEN /\ local_random' = after
                        /\ UNCHANGED global_random
                   ELSE /\ global_random' = after
                        /\ UNCHANGED local_random
                /\ k' = k + 1
                /\ UNCHANGED <<pc, j, song_id, song_file>>
           ELSE /\ Leave("error")
                /\ UNCHANGED global_random
    /\ UNCHANGED <<Outside, written>>

\* colorNotes is exhausted: on to the next difficulty
EndDifficulty ==
    /\ pc = "notes"
    /\ k = Len(colorNotes)
    /\ j' = j + 1
    /\ pc' = "loop"
    /\ UNCHANGED <<Outside, global_random, k, song_id, song_file,
                   at_map_output_json, local_random, used, written>>

\* the loop is over: write the .ats document
WriteDocument ==
    /\ pc = "loop"
    /\ j = Len(package)
    /\ \E ok \in BOOLEAN :
          IF ok
          THEN /\ written' = written \cup {"ats"}
               /\ runs' = [runs EXCEPT
                              ![Len(runs)].doc = <<at_map_output_json>>]
               /\ pc' = "copy"
               /\ UNCHANGED <<j, k, song_id, song_file, at_map_output_json,
                              local_random, used>>
          ELSE /\ Leave("error")
               /\ UNCHANGED <<written, runs>>
    /\ UNCHANGED <<version, package, choices, calls_left, config,
                   global_random, other_draws>>

\* copy the audio file next to the document
CopyAudio ==
    /\ pc = "copy"
    /\ \E ok \in BOOLEAN :
          IF song_file = "bound" /\ ok
          THEN /\ written' = written \cup {"audio"}
               /\ pc' = "cleanup"
               /\ UNCHANGED <<j, k, song_id, song_file, at_map_output_json,
                              local_random, used>>
          ELSE /\ Leave("error")
               /\ UNCHANGED written
    /\ UNCHANGED <<Outside, global_random>>

\* remove the unpacked download
RemoveDownloaded ==
    /\ pc = "cleanup"
    /\ \E ok \in BOOLEAN : Leave(IF ok THEN "done" ELSE "error")
    /\ UNCHANGED <<Outside, global_random, written>>

\* between two calls, other code draws from the module-level generator
OtherDraw ==
    /\ pc \in {"done", "error"}
    /\ calls_left > 0
    /\ other_draws < MaxOtherDraws
    /\ global_random' = RandomNext(global_random)
    /\ other_draws' = other_draws + 1
    /\ UNCHANGED <<version, package, choices, calls_left, config, pc, j, k,
                   song_id, song_file, at_map_output_json, local_random, used,
                   written, runs>>

Next ==
    \/ Begin
    \/ OpenDifficulty
    \/ TransformNote
    \/ EndDifficulty
    \/ WriteDocument
    \/ CopyAudio
    \/ RemoveDownloaded
    \/ OtherDraw

Spec == Init /\ [][Next]_vars

----------------------------------------------------------------------------
(* Vocabulary of the properties *)

Choreographies == at_map_output_json.choreographies

EventsOf(d) == Choreographies[d].data.events

\* the pairs <<d, i>> of the events emitted so far in this call
Emitted ==
    UNION {{<<d, i>> : i \in 1..Len(EventsOf(d))} :
              d \in 1..Len(Choreographies)}

RECURSIVE EventsBefore(_)
EventsBefore(d) ==
    IF d <= 1 THEN 0 ELSE EventsBefore(d - 1) + Len(EventsOf(d - 1))

\* the jitter sample that event i of difficulty d was given
SampleOf(d, i) == used[EventsBefore(d) + i]

RECURSIVE Iterate(_, _)
Iterate(s, n) == IF n = 0 THEN s ELSE Iterate(RandomNext(s), n - 1)

\* the i-th two-component sample of the stream seeded for this document
StreamSample(i) ==
    LET s == Iterate(RandomSeeded(seed_from_string(SeedMaterial)), 2 * (i - 1))
    IN  <<RandomValue(s), RandomValue(RandomNext(s))>>

\* the value a time record stands for
TimeValue(t) == RAdd(RInt(t.beat), Frac(t.numerator, t.denominator))

RDist(a, b) == RAbs(RSub(a, b))

\* the fractions with denominator up to the cap around the value v
Candidates(v) ==
    LET lo == v[1] \div v[2]
    IN  UNION {{<<p, q>> : p \in ((lo - 1) * q)..((lo + 2) * q)} :
                  q \in 1..beats_per_measure}

----------------------------------------------------------------------------
(* C1: the jitter stream is seeded once per document and never reset: the  *)
(* i-th note of the whole run receives the i-th sample of the stream.      *)
C1_StreamNeverReset ==
    \A i \in 1..Len(used) : used[i] = StreamSample(i)

(* C2: a run that ends in an error has written no output document and no   *)
(* output audio file.                                                      *)
C2_AllOrNothing ==
    pc = "error" => written = {}

(* C3: the events of a difficulty are the transforms of its notes, in the  *)
(* order of the notes, one event per note: while a difficulty is being     *)
(* processed its events match the notes processed so far, and a finished   *)
(* difficulty of N well-formed notes has exactly N events.                 *)
C3_EventOrderPreserved ==
    \A d \in 1..Len(Choreographies) :
        (\A i \in 1..Len(package[d]) : WellFormed(package[d][i])) =>
            /\ Len(EventsOf(d)) <= Len(package[d])
            /\ d <= j => Len(EventsOf(d)) = Len(package[d])
            /\ \A i \in 1..Len(EventsOf(d)) :
                  LET e == package[d][i]
                      ev == EventsOf(d)[i]
                      u == SampleOf(d, i)
                      c == LaneCentre(e, config)
                  IN  /\ ev.type = EventType(e)
                      /\ ev.time = BeatTime(e.b)
                      /\ ev.position.x =
                            RAdd(c[1], RMul(x_wobble(config),
                                RSub(RMul(u[1], RInt(2)), RInt(1))))
                      /\ ev.position.y =
                            RAdd(c[2], RMul(y_wobble(config),
                                RSub(RMul(u[2], RInt(2)), RInt(1))))

C3_Witness ==
    /\ pc = "copy"
    /\ Len(package) = 2
    /\ Len(package[1]) = 2
    /\ package[1][1] # package[1][2]
    /\ Len(EventsOf(1)) = 2
    /\ Len(EventsOf(2)) = 2

(* C4: two document builds in one process with the same seed material and  *)
(* the same configuration over the same package give identical documents,  *)
(* whatever was drawn from the module-level generator in between.          *)
C4_RepeatableBuild ==
    \A a, b \in 1..Len(runs) :
        /\ runs[a].config = runs[b].config
        /\ runs[a].seed_material = runs[b].seed_material
        /\ runs[a].doc # <<>>
        /\ runs[b].doc # <<>>
        => runs[a].doc = runs[b].doc

C4_Witness ==
    /\ Len(runs) = 2
    /\ runs[1].config = runs[2].config
    /\ runs[1].doc # <<>>
    /\ runs[2].doc # <<>>
    /\ other_draws > 0
    /\ Len(runs[2].doc[1].choreographies) = 2
    /\ Len(runs[2].doc[1].choreographies[2].data.events) > 0

(* C5: on the same map, two runs whose configurations differ in any        *)
(* argument feed different seed material to the seed hash, and two runs    *)
(* with the same configuration feed the same seed material.                *)
C5_SeedMaterialSeparatesConfigs ==
    version = "current" =>
        \A a, b \in 1..Len(runs) :
            (runs[a].config = runs[b].config)
                <=> (runs[a].seed_material = runs[b].seed_material)

(* C6: for a note at beat b >= 0 the emitted time has a non-negative whole *)
(* beat, 0 <= numerator < denominator <= 4 in lowest terms, 0/1 when the   *)
(* beat quantizes to an integer, and beat + numerator/denominator is the   *)
(* quantized value of b.                                                   *)
C6_TimeIsProperFraction ==
    \A di \in Emitted :
        LET e == package[di[1]][di[2]]
            t == EventsOf(di[1])[di[2]].time
            f == limit_denominator(Fraction(e.b), beats_per_measure)
        IN  e.b[1] >= 0 =>
                /\ t.beat >= 0
                /\ 0 <= t.numerator
                /\ t.numerator < t.denominator
                /\ t.denominator <= beats_per_measure
                /\ Gcd(t.numerator, t.denominator) = 1
                /\ f[2] = 1 => (t.numerator = 0 /\ t.denominator = 1)
                /\ TimeValue(t) = f

C6_Witness ==
    \E di \in Emitted :
        LET e == package[di[1]][di[2]]
            t == EventsOf(di[1])[di[2]].time
        IN  /\ Fraction(e.b) = <<37, 16>>
            /\ t = [beat |-> 2, numerator |-> 1, denominator |-> 3]

(* C7: the quantized value of a beat is, among the fractions with          *)
(* denominator up to 4, one of minimal distance to the beat, and of the    *)
(* smallest denominator among those of minimal distance.                   *)
C7_NearestFraction ==
    \A di \in Emitted :
        LET b == Fraction(package[di[1]][di[2]].b)
            v == TimeValue(EventsOf(di[1])[di[2]].time)
        IN  /\ v[2] <= beats_per_measure
            /\ \A c \in Candidates(b) :
                  /\ RLe(RDist(v, b), RDist(c, b))
                  /\ RDist(c, b) = RDist(v, b) => v[2] <= c[2]

C7_Witness ==
    \E di \in Emitted :
        /\ Fraction(package[di[1]][di[2]].b) = <<1, 8>>
        /\ EventsOf(di[1])[di[2]].time =
              [beat |-> 0, numerator |-> 0, denominator |-> 1]

(* C8: a note whose beat is negative makes the transform fail: no event is *)
(* emitted for it.                                                         *)
C8_NegativeBeatRejected ==
    \A di \in Emitted : package[di[1]][di[2]].b[1] >= 0

(* C9: a note whose lane_column is outside 0..3 or whose lane_row is       *)
(* outside 0..2, negative values included, makes the transform fail: no    *)
(* event is emitted for it.                                                *)
C9_LaneOutOfRangeRejected ==
    \A di \in Emitted :
        /\ package[di[1]][di[2]].x \in 0..3
        /\ package[di[1]][di[2]].y \in 0..2

\* event di is of lane (0, 0) under x_range 2.5, y_range 1.5, y_min 0.3 and
\* its jitter offset is zero in both components
C10_Case(di) ==
    LET e == package[di[1]][di[2]]
        u == SampleOf(di[1], di[2])
    IN  /\ e.x = 0
        /\ e.y = 0
        /\ config.at_x_range = 250
        /\ config.at_y_range = 150
        /\ config.at_y_min = 30
        /\ config.x_wobble_factor = 0 \/ u[1] = <<1, 2>>
        /\ config.y_wobble_factor = 0 \/ u[2] = <<1, 2>>

(* C10 as stated: with zero jitter, lane (0, 0) under x_range 2.5, y_range *)
(* 1.5, y_min 0.3 maps to x = -1.875, y = 0.675, z = 0.                    *)
C10_Original ==
    \A di \in Emitted :
        C10_Case(di) =>
            EventsOf(di[1])[di[2]].position =
                [x |-> <<-15, 8>>, y |-> <<27, 40>>, z |-> <<0, 1>>]

(* C10 amended: with zero jitter, lane (0, 0) under x_range 2.5, y_range   *)
(* 1.5, y_min 0.3 maps to x = -1.25, y = 0.675, z = 0.                     *)
C10_LaneZeroCentre ==
    \A di \in Emitted :
        C10_Case(di) =>
            EventsOf(di[1])[di[2]].position =
                [x |-> <<-5, 4>>, y |-> <<27, 40>>, z |-> <<0, 1>>]

C10_Witness ==
    \E di \in Emitted :
        /\ C10_Case(di)
        /\ pc = "copy"

(* C11: every written document carries the song length of the probed       *)
(* audio, whatever the number of declared difficulties: both               *)
(* songEndTimeInSeconds and songFullLengthInSeconds are present and equal  *)
(* to the audio duration, also with zero difficulties.                     *)
C11_SongLengthInEveryDocument ==
    \A r \in 1..Len(runs) :
        runs[r].doc # <<>> =>
            LET md == runs[r].doc[1].metadata
            IN  /\ md.songEndTimeInSeconds = <<bs_info_json.song_length>>
                /\ md.songFullLengthInSeconds = <<bs_info_json.song_length>>

(* C12: the type of every emitted event is 1 when the colour tag c of its  *)
(* source note is 0 and 2 for every other colour tag; no other type value  *)
(* is emitted.                                                             *)
C12_TypeFromColor ==
    \A di \in Emitted :
        LET c == package[di[1]][di[2]].c
            type == EventsOf(di[1])[di[2]].type
        IN  /\ type \in {1, 2}
            /\ (c = 0) => (type = 1)
            /\ (c # 0) => (type = 2)

C12_Witness ==
    \E di \in Emitted :
        /\ package[di[1]][di[2]].c > 1
        /\ EventsOf(di[1])[di[2]].type = 2
        /\ pc = "copy"

\* the lattice centre of lane (e.x, e.y) as the layout states it: columns
\* x_range/3 apart and symmetric about 0, rows y_range/2 apart, the first
\* row half a step above y_min
C13_Centre(e, cfg) ==
    <<RMul(Frac(2 * e.x - 3, 2), RDiv(Float(cfg.at_x_range), RInt(3))),
      RAdd(Float(cfg.at_y_min),
           RMul(Frac(2 * e.y + 1, 2), RDiv(Float(cfg.at_y_range), RInt(2))))>>

C13_TableLayout(cfg) ==
    LET table == positions(cfg)
        xs == RDiv(Float(cfg.at_x_range), RInt(3))
        ys == RDiv(Float(cfg.at_y_range), RInt(2))
    IN  /\ Len(table) = 3
        /\ \A r \in 1..3 : Len(table[r]) = 4
        /\ x_scale(cfg) = xs
        /\ y_scale(cfg) = ys
        /\ \A r \in 1..3 : \A c \in 1..3 :
               RSub(table[r][c + 1][1], table[r][c][1]) = xs
        /\ \A r \in 1..3 : \A c \in 1..4 :
               table[r][c][1] = RNeg(table[r][5 - c][1])
        /\ \A r \in 1..2 : \A c \in 1..4 :
               RSub(table[r + 1][c][2], table[r][c][2]) = ys
        /\ \A c \in 1..4 :
               table[1][c][2] =
                   RAdd(Float(cfg.at_y_min), RDiv(ys, RInt(2)))
        /\ \A r1, r2 \in 1..3 : \A c1, c2 \in 1..4 :
               r1 < r2 => RLt(table[r1][c1][2], table[r2][c2][2])

\* the position of emitted event di with its jitter taken off again
C13_Unjittered(di) ==
    LET p == EventsOf(di[1])[di[2]].position
        u == SampleOf(di[1], di[2])
        jx == RSub(RMul(u[1], RInt(2)), RInt(1))
        jy == RSub(RMul(u[2], RInt(2)), RInt(1))
    IN  <<RSub(p.x, RMul(x_wobble(config), jx)),
          RSub(p.y, RMul(y_wobble(config), jy))>>

(* C13: the lookup table has 3 rows of 4 centres with x_scale = x_range/3  *)
(* and y_scale = y_range/2; adjacent columns are x_scale apart and         *)
(* symmetric about x = 0, adjacent rows are y_scale apart, source lane_row *)
(* 0 selects table row 0, whose y = y_min + y_scale/2 is the smallest, and *)
(* the destination y strictly increases with the source lane_row.          *)
C13_LatticeLayout ==
    /\ (pc = "notes" /\ k = 0) => C13_TableLayout(config)
    /\ \A di \in Emitted :
           LET e == package[di[1]][di[2]]
               at == C13_Unjittered(di)
           IN  (e.x \in 0..3 /\ e.y \in 0..2) =>
                   /\ at = positions(config)[e.y + 1][e.x + 1]
                   /\ at = C13_Centre(e, config)
                   /\ pc = "copy" =>
                          \A dj \in Emitted :
                              LET f == package[dj[1]][dj[2]]
                              IN  (f.x \in 0..3 /\ f.y \in 0..2
                                      /\ e.y < f.y) =>
                                      RLt(at[2], C13_Unjittered(dj)[2])

C13_Witness ==
    \E di \in Emitted :
        /\ package[di[1]][di[2]].x = 3
        /\ package[di[1]][di[2]].y = 2
        /\ config.at_y_range = 1150
        /\ pc = "copy"

\* the offset of emitted event di from the centre of its lane
C14_Offset(di) ==
    LET e == package[di[1]][di[2]]
        p == EventsOf(di[1])[di[2]].position
        centre == positions(config)[e.y + 1][e.x + 1]
    IN  <<RSub(p.x, centre[1]), RSub(p.y, centre[2])>>

C14_InLattice(di) ==
    /\ package[di[1]][di[2]].x \in 0..3
    /\ package[di[1]][di[2]].y \in 0..2

(* C14: every emitted event lies within x_scale * x_wobble_factor in x and *)
(* y_scale * y_wobble_factor in y of the lattice centre of its note's lane *)
(* and has z = 0; the x offset comes from the first draw and the y offset  *)
(* from the second draw of the note's sample.                              *)
C14_JitterBounded ==
    \A di \in Emitted :
        LET u == SampleOf(di[1], di[2])
            off == C14_Offset(di)
            xw == RMul(RDiv(Float(config.at_x_range), RInt(3)),
                       Float(config.x_wobble_factor))
            yw == RMul(RDiv(Float(config.at_y_range), RInt(2)),
                       Float(config.y_wobble_factor))
        IN  /\ EventsOf(di[1])[di[2]].position.z = RInt(0)
            /\ C14_InLattice(di) =>
                   /\ RLe(RAbs(off[1]), xw)
                   /\ RLe(RAbs(off[2]), yw)
                   /\ off[1] = RMul(xw, RSub(RMul(u[1], RInt(2)), RInt(1)))
                   /\ off[2] = RMul(yw, RSub(RMul(u[2], RInt(2)), RInt(1)))

C14_Witness ==
    \E di \in Emitted :
        /\ C14_InLattice(di)
        /\ C14_Offset(di)[1] # RInt(0)
        /\ C14_Offset(di)[2] # RInt(0)
        /\ C14_Offset(di)[1] # C14_Offset(di)[2]
        /\ pc = "copy"

====
